---- MODULE Spec2Model ----
(***************************************************************************)
(* Model of ThinkToolServer (src/think_tool/server.py): the in-memory      *)
(* thoughts_log and the four registered tools think, get_thoughts,         *)
(* clear_thoughts and get_thought_stats.                                   *)
(*                                                                         *)
(* Representation.                                                         *)
(*  - A Python str is a sequence of one-character strings, so slicing,     *)
(*    concatenation, join and substring containment are computed.          *)
(*  - Optional[T]: None is <<>> and a supplied value v is <<v>>.           *)
(*  - A thought_entry dict is a record whose DOMAIN holds exactly the keys *)
(*    the code stored ("pattern" in entry  is  "pattern" \in DOMAIN entry).*)
(*  - A confidence float is an integer number of eighths (c stands for     *)
(*    c/8.0). Eighths are exact binary floats: their sums are exact, and a *)
(*    mean over fewer than five of them lies exactly on a rounding tie     *)
(*    only where the quotient itself is an exact float, so Python's        *)
(*    round(x, 2) and format(x, ".2f") (both round-half-even on the exact  *)
(*    value of the float) agree with RoundHalfEven on the rational.        *)
(*  - A value rounded to two decimals is an integer number of hundredths.  *)
(*  - A handler's return value is Str(text) for literal text, and          *)
(*    json_dumps(doc) for the JSON text of a dict, kept as the document it *)
(*    serialises (a JSON object text starts with "{" and never equals one  *)
(*    of the literal sentences).                                           *)
(***************************************************************************)
EXTENDS Integers, Sequences, FiniteSets, TLC

VARIABLES
    thoughts_log,   \* self.thoughts_log: list of thought_entry dicts
    timezone_name,  \* self.timezone_name: resolved once in __init__
    last_op,        \* the tool called last ("init" before any call)
    result,         \* the value that call returned
    calls           \* history: the arguments of every think since the last clear

vars == <<thoughts_log, timezone_name, last_op, result, calls>>

\* Largest number of entries the log is allowed to hold in the model.
MaxLog == 3

\* thought[:100]
TruncLen == 100

\* Denominator of the confidence values (eighths).
ConfDen == 2 * 2 * 2

-----------------------------------------------------------------------------
(* Optional values *)

None == <<>>

Some(v) == <<v>>

-----------------------------------------------------------------------------
(* String literals of the source *)

STR_NoThoughts ==
    <<"N", "o", " ", "t", "h", "o", "u", "g", "h", "t", "s", " ", "h", "a", "v", "e", " ", "b", "e", "e", "n", " ", "r", "e", "c", "o", "r", "d", "e", "d", " ", "y", "e", "t", ".">>

STR_NoThoughtsStats ==
    <<"N", "o", " ", "t", "h", "o", "u", "g", "h", "t", "s", " ", "h", "a", "v", "e", " ", "b", "e", "e", "n", " ", "r", "e", "c", "o", "r", "d", "e", "d", " ", "y", "e", "t", ".">>

STR_ThoughtRecorded ==
    <<"T", "h", "o", "u", "g", "h", "t", " ", "r", "e", "c", "o", "r", "d", "e", "d", ":", " ">>

STR_Ellipsis ==
    <<".", ".", ".">>

STR_OpenPattern ==
    <<" ", "[", "P", "a", "t", "t", "e", "r", "n", ":", " ">>

STR_OpenConfidence ==
    <<" ", "[", "C", "o", "n", "f", "i", "d", "e", "n", "c", "e", ":", " ">>

STR_Close ==
    <<"]">>

STR_ThoughtNo ==
    <<"T", "h", "o", "u", "g", "h", "t", " ", "#">>

STR_OpenParen ==
    <<" ", "(">>

STR_CloseParenColon ==
    <<")", ":">>

STR_Pattern ==
    <<"P", "a", "t", "t", "e", "r", "n", ":", " ">>

STR_Confidence ==
    <<"C", "o", "n", "f", "i", "d", "e", "n", "c", "e", ":", " ">>

STR_CommaSpace ==
    <<",", " ">>

STR_OpenMeta ==
    <<" ", "[">>

STR_Justification ==
    <<"J", "u", "s", "t", "i", "f", "i", "c", "a", "t", "i", "o", "n", ":", " ">>

STR_Alternatives ==
    <<"A", "l", "t", "e", "r", "n", "a", "t", "i", "v", "e", "s", " ", "c", "o", "n", "s", "i", "d", "e", "r", "e", "d", ":", " ">>

STR_Cleared ==
    <<"C", "l", "e", "a", "r", "e", "d", " ">>

STR_RecordedThoughts ==
    <<" ", "r", "e", "c", "o", "r", "d", "e", "d", " ", "t", "h", "o", "u", "g", "h", "t", "s", ".">>

STR_Space ==
    <<" ">>

NL ==
    <<"\n">>

-----------------------------------------------------------------------------
(* Python built-ins used by the handlers *)

Digits == <<"0", "1", "2", "3", "4", "5", "6", "7", "8", "9">>

\* str(n) / f"{n}" for an int n >= 0
RECURSIVE IntToStr(_)
IntToStr(n) ==
    IF n < 10 THEN <<Digits[n + 1]>>
    ELSE IntToStr(n \div 10) \o <<Digits[(n % 10) + 1]>>

\* Rounding of the rational num/den (num >= 0, den > 0) to the nearest
\* integer, ties to the even one: the rounding of round() and of ".2f".
RoundHalfEven(num, den) ==
    LET q == num \div den
        r == num % den
    IN  IF 2 * r < den THEN q
        ELSE IF 2 * r > den THEN q + 1
        ELSE IF q % 2 = 0 THEN q ELSE q + 1

\* round(num/den, 2), as a number of hundredths
Round2(num, den) == RoundHalfEven(100 * num, den)

\* The text of h hundredths with exactly two decimals: "0.80", "1.50"
Fixed2(h) ==
    IntToStr(h \div 100) \o <<".">>
        \o <<Digits[((h % 100) \div 10) + 1], Digits[(h % 10) + 1]>>

\* f"{confidence:.2f}" for a confidence of c eighths
FormatConfidence(c) == Fixed2(Round2(c, ConfDen))

\* sep.join(parts) for a list of strings
RECURSIVE Join(_, _)
Join(sep, parts) ==
    IF parts = <<>> THEN <<>>
    ELSE IF Len(parts) = 1 THEN parts[1]
    ELSE parts[1] \o sep \o Join(sep, Tail(parts))

\* s[:n]
Slice(s, n) == IF Len(s) <= n THEN s ELSE SubSeq(s, 1, n)

\* sum(xs) for a list of numbers
RECURSIVE Sum(_)
Sum(xs) == IF xs = <<>> THEN 0 ELSE xs[1] + Sum(Tail(xs))

\* max() over a non-empty set of (length, index) tuples: tuples compare
\* lexicographically
TupleLeq(a, b) == a[1] < b[1] \/ (a[1] = b[1] /\ a[2] <= b[2])

MaxTuple(S) == CHOOSE p \in S : \A q \in S : TupleLeq(q, p)

\* A literal text returned by a handler
Str(text) == [str |-> text]

\* json.dumps(doc, indent=2)
json_dumps(doc) == [json |-> doc]

-----------------------------------------------------------------------------
(* think *)

\* f"{now.isoformat()} {self.timezone_name}"
get_local_timestamp(now) == now \o STR_Space \o timezone_name

\* dict d with d[key] = opt's value when opt is not None
SetIfNotNone(d, key, opt) ==
    IF opt # None THEN (key :> opt[1]) @@ d ELSE d

\* The dict think appends to the log
thought_entry(timestamp, thought, pattern, confidence, alternatives, justification) ==
    LET e0 == [timestamp |-> timestamp, thought |-> thought]
        e1 == SetIfNotNone(e0, "pattern", pattern)
        e2 == SetIfNotNone(e1, "confidence", confidence)
        e3 == SetIfNotNone(e2, "alternatives", alternatives)
    IN  SetIfNotNone(e3, "justification", justification)

\* "if pattern:" -- the truth value of an Optional[str]
PatternTruthy(pattern) == pattern # None /\ pattern[1] # <<>>

\* The confirmation think returns
confirmation(thought, pattern, confidence) ==
    LET c0 == STR_ThoughtRecorded \o Slice(thought, TruncLen) \o STR_Ellipsis
        c1 == IF PatternTruthy(pattern)
              THEN c0 \o STR_OpenPattern \o pattern[1] \o STR_Close
              ELSE c0
    IN  IF confidence # None
        THEN c1 \o STR_OpenConfidence \o FormatConfidence(confidence[1]) \o STR_Close
        ELSE c1

\* Variant of think: the new entry replaces the log instead of joining it
think_Overwrite(thought, pattern, confidence, alternatives, justification, now) ==
    /\ Len(thoughts_log) < MaxLog
    /\ thoughts_log' =
           <<thought_entry(get_local_timestamp(now), thought, pattern,
                           confidence, alternatives, justification)>>
    /\ result' = Str(confirmation(thought, pattern, confidence))
    /\ last_op' = "think"
    /\ calls' = Append(calls, [thought |-> thought, pattern |-> pattern,
                               confidence |-> confidence,
                               alternatives |-> alternatives,
                               justification |-> justification, now |-> now])
    /\ UNCHANGED timezone_name

think(thought, pattern, confidence, alternatives, justification, now) ==
    /\ Len(thoughts_log) < MaxLog
    /\ thoughts_log' =
           Append(thoughts_log,
                  thought_entry(get_local_timestamp(now), thought, pattern,
                                confidence, alternatives, justification))
    /\ result' = Str(confirmation(thought, pattern, confidence))
    /\ last_op' = "think"
    /\ calls' = Append(calls, [thought |-> thought, pattern |-> pattern,
                               confidence |-> confidence,
                               alternatives |-> alternatives,
                               justification |-> justification, now |-> now])
    /\ UNCHANGED timezone_name

-----------------------------------------------------------------------------
(* get_thoughts *)

\* Variant of metadata: the confidence is left out
metadata_PatternOnly(entry) ==
    IF "pattern" \in DOMAIN entry
    THEN <<STR_Pattern \o entry.pattern>> ELSE <<>>

\* The list "metadata" built for one entry
metadata(entry) ==
    (IF "pattern" \in DOMAIN entry
     THEN <<STR_Pattern \o entry.pattern>> ELSE <<>>)
    \o
    (IF "confidence" \in DOMAIN entry
     THEN <<STR_Confidence \o FormatConfidence(entry.confidence)>> ELSE <<>>)

\* Variant of HasAlternatives: '"alternatives" in entry' alone
HasAlternatives_KeyOnly(entry) == "alternatives" \in DOMAIN entry

\* '"alternatives" in entry and entry["alternatives"]'
HasAlternatives(entry) ==
    "alternatives" \in DOMAIN entry /\ entry.alternatives # <<>>

\* thought_str of the i-th entry (i from 1), as appended to formatted_thoughts
thought_str(i, entry) ==
    LET s0 == STR_ThoughtNo \o IntToStr(i) \o STR_OpenParen
                  \o entry.timestamp \o STR_CloseParenColon
        s1 == IF metadata(entry) # <<>>
              THEN s0 \o STR_OpenMeta \o Join(STR_CommaSpace, metadata(entry))
                      \o STR_Close
              ELSE s0
        s2 == s1 \o NL \o entry.thought
        s3 == IF "justification" \in DOMAIN entry
              THEN s2 \o NL \o STR_Justification \o entry.justification
              ELSE s2
        s4 == IF HasAlternatives(entry)
              THEN s3 \o NL \o STR_Alternatives
                      \o Join(STR_CommaSpace, entry.alternatives)
              ELSE s3
    IN  s4 \o NL

formatted_thoughts(log) == [i \in 1..Len(log) |-> thought_str(i, log[i])]

get_thoughts_result(log) ==
    IF log = <<>> THEN Str(STR_NoThoughts)
    ELSE Str(Join(NL, formatted_thoughts(log)))

get_thoughts ==
    /\ result' = get_thoughts_result(thoughts_log)
    /\ last_op' = "get_thoughts"
    /\ UNCHANGED <<thoughts_log, timezone_name, calls>>

-----------------------------------------------------------------------------
(* clear_thoughts *)

\* f"Cleared {count} recorded thoughts."
cleared_message(count) == STR_Cleared \o IntToStr(count) \o STR_RecordedThoughts

\* Variant of clear_thoughts: the count is taken after the log is emptied
clear_thoughts_CountAfter ==
    /\ thoughts_log' = <<>>
    /\ result' = Str(cleared_message(Len(thoughts_log')))
    /\ last_op' = "clear_thoughts"
    /\ calls' = <<>>
    /\ UNCHANGED timezone_name

clear_thoughts ==
    LET count == Len(thoughts_log)
    IN  /\ thoughts_log' = <<>>
        /\ result' = Str(cleared_message(count))
        /\ last_op' = "clear_thoughts"
        /\ calls' = <<>>
        /\ UNCHANGED timezone_name

-----------------------------------------------------------------------------
(* get_thought_stats *)

\* [len(entry["thought"]) for entry in log]
thought_lengths(log) == [i \in 1..Len(log) |-> Len(log[i].thought)]

\* Variant of longest_thought: max(..., key=len), the first entry of maximal
\* length
longest_thought_FirstMax(log) ==
    IF log # <<>>
    THEN LET i == CHOOSE i \in 0..(Len(log) - 1) :
                      /\ \A j \in 0..(Len(log) - 1) :
                             Len(log[j + 1].thought) <= Len(log[i + 1].thought)
                      /\ \A j \in 0..(i - 1) :
                             Len(log[j + 1].thought) < Len(log[i + 1].thought)
         IN  <<Len(log[i + 1].thought), i>>
    ELSE <<0, -1>>

\* max((len(entry["thought"]), i) for i, entry in enumerate(log)), i from 0
longest_thought(log) ==
    IF log # <<>>
    THEN MaxTuple({<<Len(log[i + 1].thought), i>> : i \in 0..(Len(log) - 1)})
    ELSE <<0, -1>>

\* Variant of pattern_counts: pattern_counts[pattern] = 1, no increment
RECURSIVE pattern_counts_NoIncrement(_)
pattern_counts_NoIncrement(log) ==
    IF log = <<>> THEN <<>>
    ELSE LET prev  == pattern_counts_NoIncrement(SubSeq(log, 1, Len(log) - 1))
             entry == log[Len(log)]
         IN  IF "pattern" \in DOMAIN entry
             THEN [k \in (DOMAIN prev) \cup {entry.pattern} |->
                      IF k = entry.pattern THEN 1 ELSE prev[k]]
             ELSE prev

\* pattern_counts after the loop over log
RECURSIVE pattern_counts(_)
pattern_counts(log) ==
    IF log = <<>> THEN <<>>
    ELSE LET prev  == pattern_counts(SubSeq(log, 1, Len(log) - 1))
             entry == log[Len(log)]
         IN  IF "pattern" \in DOMAIN entry
             THEN [k \in (DOMAIN prev) \cup {entry.pattern} |->
                      IF k = entry.pattern
                      THEN (IF k \in DOMAIN prev THEN prev[k] ELSE 0) + 1
                      ELSE prev[k]]
             ELSE prev

\* Variant of confidence_values: 'if entry.get("confidence")', which drops 0
RECURSIVE confidence_values_Truthy(_)
confidence_values_Truthy(log) ==
    IF log = <<>> THEN <<>>
    ELSE LET prev  == confidence_values_Truthy(SubSeq(log, 1, Len(log) - 1))
             entry == log[Len(log)]
         IN  IF "confidence" \in DOMAIN entry /\ entry.confidence # 0
             THEN Append(prev, entry.confidence) ELSE prev

\* confidence_values after the loop over log
RECURSIVE confidence_values(_)
confidence_values(log) ==
    IF log = <<>> THEN <<>>
    ELSE LET prev  == confidence_values(SubSeq(log, 1, Len(log) - 1))
             entry == log[Len(log)]
         IN  IF "confidence" \in DOMAIN entry
             THEN Append(prev, entry.confidence) ELSE prev

\* thoughts_with_justification after the loop over log
RECURSIVE thoughts_with_justification(_)
thoughts_with_justification(log) ==
    IF log = <<>> THEN 0
    ELSE thoughts_with_justification(SubSeq(log, 1, Len(log) - 1))
         + (IF "justification" \in DOMAIN log[Len(log)] THEN 1 ELSE 0)

\* thoughts_with_alternatives after the loop over log
RECURSIVE thoughts_with_alternatives(_)
thoughts_with_alternatives(log) ==
    IF log = <<>> THEN 0
    ELSE thoughts_with_alternatives(SubSeq(log, 1, Len(log) - 1))
         + (IF HasAlternatives(log[Len(log)]) THEN 1 ELSE 0)

\* round(sum(confidence_values) / len(confidence_values), 2) if
\* confidence_values else None; the mean of eighths, in hundredths
average_confidence(values) ==
    IF values # <<>>
    THEN Some(Round2(Sum(values), ConfDen * Len(values)))
    ELSE None

\* longest_thought[1] + 1 if longest_thought[1] >= 0 else None
longest_thought_index(longest) ==
    IF longest[2] >= 0 THEN Some(longest[2] + 1) ELSE None

\* Variant of longest_thought_length: the length is reported even when it is 0
longest_thought_length_Always(longest) == Some(longest[1])

\* longest_thought[0] if longest_thought[0] > 0 else None
longest_thought_length(longest) ==
    IF longest[1] > 0 THEN Some(longest[1]) ELSE None

\* The dict "stats" of a non-empty log
stats(log) ==
    LET total_thoughts == Len(log)
        longest        == longest_thought(log)
    IN  [ total_thoughts |-> total_thoughts,
          average_length |-> Round2(Sum(thought_lengths(log)), total_thoughts),
          longest_thought_index |-> longest_thought_index(longest),
          longest_thought_length |-> longest_thought_length(longest),
          pattern_distribution |-> pattern_counts(log),
          average_confidence |-> average_confidence(confidence_values(log)),
          thoughts_with_justification |-> thoughts_with_justification(log),
          thoughts_with_alternatives |-> thoughts_with_alternatives(log) ]

\* Variant of get_thought_stats_result: a sentence of its own for the empty log
get_thought_stats_result_OtherSentinel(log) ==
    IF log = <<>> THEN Str(SubSeq(STR_NoThoughtsStats, 1, 30) \o <<".">>)
    ELSE json_dumps(stats(log))

get_thought_stats_result(log) ==
    IF log = <<>> THEN Str(STR_NoThoughtsStats) ELSE json_dumps(stats(log))

get_thought_stats ==
    /\ result' = get_thought_stats_result(thoughts_log)
    /\ last_op' = "get_thought_stats"
    /\ UNCHANGED <<thoughts_log, timezone_name, calls>>

-----------------------------------------------------------------------------
(* Construction and the arguments the tools are called with *)

\* Nothing has been returned before the first call
NoResult == [none |-> TRUE]

\* os.environ['TZ'] or time.tzname[time.daylight], read once in __init__
TimezoneNames == {<<"J", "S", "T">>, <<"U", "T", "C">>}

Init ==
    /\ thoughts_log = <<>>
    /\ timezone_name \in TimezoneNames
    /\ last_op = "init"
    /\ result = NoResult
    /\ calls = <<>>

\* The arguments of one think call
Args(T, P, C, A, J) ==
    [thought : T, pattern : P, confidence : C, alternatives : A, justification : J]

\* A thought longer than the slice of the confirmation
LongThought == [i \in 1..(TruncLen + 1) |-> "x"]

\* datetime.datetime.now().isoformat() at the calls
Clock1 == {<<"t", "1">>}

Clock2 == {<<"t", "1">>, <<"t", "2">>}

ArgsBasic ==
    Args({<<>>, <<"h", "i">>}, {None, Some(<<"a">>)}, {None, Some(4)},
         {None}, {None})

ArgsLen ==
    Args({<<>>, <<"a">>, <<"b">>, <<"h", "i">>, <<"o", "k">>},
         {None}, {None}, {None}, {None})

ArgsPattern ==
    Args({<<"h", "i">>}, {None, Some(<<>>), Some(<<"a">>), Some(<<"b">>)},
         {None}, {None}, {None})

ArgsConf ==
    Args({<<"h", "i">>}, {None}, {None, Some(0), Some(1), Some(3), Some(8)},
         {None}, {None})

ArgsConfirm ==
    Args({<<"h", "i">>, LongThought}, {None, Some(<<>>), Some(<<"a">>)},
         {None, Some(0), Some(3)}, {None}, {None})

ArgsAlt ==
    Args({<<"h", "i">>}, {None}, {None},
         {None, Some(<<>>), Some(<<<<"x">>, <<"y">>>>)},
         {None, Some(<<>>), Some(<<"j">>)})

ArgsRender ==
    LET xy == Some(<<<<"x">>, <<"y">>>>)
        a  == Some(<<"a">>)
        j  == Some(<<"j">>)
        R(P, C, A, J) == Args({<<"h", "i">>}, {P}, {C}, {A}, {J})
    IN  R(None, None, None, None) \cup R(a, Some(3), xy, j)
            \cup R(a, None, None, j) \cup R(None, Some(12), xy, None)

\* One call of one of the four tools, think with arguments from D at a time of K
Call(D, K) ==
    \/ \E a \in D, now \in K :
           think(a.thought, a.pattern, a.confidence, a.alternatives,
                 a.justification, now)
    \/ get_thoughts
    \/ clear_thoughts
    \/ get_thought_stats

Next == Call(ArgsBasic, Clock1)

Spec == Init /\ [][Next]_vars

NextLen == Call(ArgsLen, Clock1)

SpecLen == Init /\ [][NextLen]_vars

NextPattern == Call(ArgsPattern, Clock1)

SpecPattern == Init /\ [][NextPattern]_vars

NextConf == Call(ArgsConf, Clock1)

SpecConf == Init /\ [][NextConf]_vars

NextConfirm == Call(ArgsConfirm, Clock1)

SpecConfirm == Init /\ [][NextConfirm]_vars

NextAlt == Call(ArgsAlt, Clock1)

SpecAlt == Init /\ [][NextAlt]_vars

NextRender == Call(ArgsRender, Clock2)

SpecRender == Init /\ [][NextRender]_vars

-----------------------------------------------------------------------------
(* Properties *)

\* The last call was tool op
Returned(op) == last_op = op

\* The last call was get_thought_stats and it returned a JSON document
ReturnedStats == Returned("get_thought_stats") /\ "json" \in DOMAIN result

\* The positions 1..n of the think calls since the last clear
Appended == 1..Len(calls)

\* The sum of f[x] over the elements x of the finite set S
RECURSIVE SumOver(_, _)
SumOver(S, f) ==
    IF S = {} THEN 0
    ELSE LET x == CHOOSE y \in S : TRUE
         IN  f[x] + SumOver(S \ {x}, f)

\* C1: total_thoughts returned by get_thought_stats on a non-empty log is the
\* number of think calls made since the most recent clear_thoughts (or since
\* the start), and every think call makes the log exactly one entry longer.
C1_TotalThoughts ==
    /\ [](Returned("get_thought_stats") /\ thoughts_log # <<>>
            => /\ ReturnedStats
               /\ result.json.total_thoughts = Len(calls))
    /\ [][last_op' = "think"
            => Len(thoughts_log') = Len(thoughts_log) + 1]_vars

C1_Witness ==
    /\ ReturnedStats
    /\ result.json.total_thoughts = 2
    /\ Len(calls) = 2

\* C2: clear_thoughts on a log of N entries reports N and leaves the log
\* empty; the get_thoughts or get_thought_stats called next returns the
\* sentinel, and a clear_thoughts called next reports 0.
C2_ClearReportsCount ==
    [][ /\ last_op' = "clear_thoughts"
            => /\ result' = Str(STR_Cleared \o IntToStr(Len(thoughts_log))
                                    \o STR_RecordedThoughts)
               /\ thoughts_log' = <<>>
        /\ last_op = "clear_thoughts"
              /\ last_op' \in {"get_thoughts", "get_thought_stats"}
            => result' = Str(STR_NoThoughts)
        /\ last_op = "clear_thoughts" /\ last_op' = "clear_thoughts"
            => result' = Str(STR_Cleared \o <<"0">> \o STR_RecordedThoughts)
      ]_vars

C2_Witness ==
    /\ Returned("clear_thoughts")
    /\ result = Str(STR_Cleared \o <<"2">> \o STR_RecordedThoughts)
    /\ thoughts_log = <<>>

\* C3: get_thoughts and get_thought_stats return the sentinel exactly when the
\* log is empty, the same sentinel text for both; the log is empty exactly
\* when no think was called since the start or the last clear_thoughts: a
\* think leaves it non-empty and only clear_thoughts empties it.
C3_SentinelIffEmpty ==
    /\ [](/\ Returned("get_thoughts") \/ Returned("get_thought_stats")
              => (result = Str(STR_NoThoughts) <=> thoughts_log = <<>>)
          /\ thoughts_log = <<>> <=> calls = <<>>)
    /\ [][ /\ last_op' = "think" => thoughts_log' # <<>>
           /\ thoughts_log # <<>> /\ thoughts_log' = <<>>
                => last_op' = "clear_thoughts" ]_vars

C3_Witness ==
    /\ Returned("get_thought_stats")
    /\ result = Str(STR_NoThoughts)
    /\ thoughts_log = <<>>

\* C4: longest_thought_index is the position of an entry of maximal thought
\* length, and the last such position when several entries share the maximum.
C4_LongestIndexLastMax ==
    ReturnedStats =>
        LET idx == result.json.longest_thought_index
        IN  /\ idx # None
            /\ idx[1] \in Appended
            /\ \A j \in Appended :
                   Len(calls[j].thought) <= Len(calls[idx[1]].thought)
            /\ \A j \in Appended :
                   j > idx[1] => Len(calls[j].thought) < Len(calls[idx[1]].thought)

\* Two entries of the same maximal length 2: the index is the later one
C4_Witness ==
    /\ ReturnedStats
    /\ Len(calls) = 3
    /\ Len(calls[1].thought) = 2
    /\ Len(calls[2].thought) = 2
    /\ Len(calls[3].thought) = 1
    /\ result.json.longest_thought_index = Some(2)

\* C9: longest_thought_length is the thought length of the entry at
\* longest_thought_index when that length is positive and is absent when every
\* thought is empty; longest_thought_index is a position of the log either way.
C9_LongestLength ==
    ReturnedStats =>
        LET idx == result.json.longest_thought_index
            len == result.json.longest_thought_length
        IN  /\ idx # None
            /\ idx[1] \in 1..result.json.total_thoughts
            /\ idx[1] \in Appended
            /\ Len(calls[idx[1]].thought) > 0
                   => len = Some(Len(calls[idx[1]].thought))
            /\ (\A j \in Appended : calls[j].thought = <<>>) => len = None

\* Only empty thoughts: the length is absent and the index is the last entry
C9_Witness ==
    /\ ReturnedStats
    /\ Len(calls) = 2
    /\ \A j \in Appended : calls[j].thought = <<>>
    /\ result.json.longest_thought_length = None
    /\ result.json.longest_thought_index = Some(2)

\* The positions of the think calls that supplied a pattern / a confidence
WithPattern == {i \in Appended : calls[i].pattern # None}

WithConfidence == {i \in Appended : calls[i].confidence # None}

\* C7: pattern_distribution has exactly the distinct supplied pattern values
\* as keys, maps each to the number of entries carrying that value, and its
\* counts sum to the number of entries that supplied a pattern.
C7_PatternDistribution ==
    ReturnedStats =>
        LET dist == result.json.pattern_distribution
        IN  /\ DOMAIN dist = {calls[i].pattern[1] : i \in WithPattern}
            /\ \A k \in DOMAIN dist :
                   dist[k] = Cardinality({i \in WithPattern : calls[i].pattern[1] = k})
            /\ SumOver(DOMAIN dist, dist) = Cardinality(WithPattern)

\* Patterns "a", "b", "a" give {"a": 2, "b": 1}
C7_Witness ==
    /\ ReturnedStats
    /\ Len(calls) = 3
    /\ calls[1].pattern = Some(<<"a">>)
    /\ calls[2].pattern = Some(<<"b">>)
    /\ calls[3].pattern = Some(<<"a">>)
    /\ result.json.pattern_distribution[<<"a">>] = 2
    /\ result.json.pattern_distribution[<<"b">>] = 1

\* h hundredths is the rational num/den rounded to two decimals: no other
\* number of hundredths is nearer to it
NearestHundredths(h, num, den) ==
    LET d == 100 * num - h * den
    IN  2 * (IF d < 0 THEN -d ELSE d) <= den

\* C8: average_confidence is absent exactly when no entry supplied a
\* confidence; otherwise it is the mean of the supplied confidences (a
\* supplied 0 included, entries without one left out of the sum and of the
\* count), rounded to two decimals.
C8_AverageConfidence ==
    ReturnedStats =>
        LET avg == result.json.average_confidence
            sum == SumOver(WithConfidence, [i \in WithConfidence |-> calls[i].confidence[1]])
            n   == Cardinality(WithConfidence)
        IN  /\ avg = None <=> WithConfidence = {}
            /\ avg # None /\ n > 0
                   => NearestHundredths(avg[1], sum, ConfDen * n)

\* Confidences 0 and 1.0 with an entry without confidence between them: 0.5
C8_Witness ==
    /\ ReturnedStats
    /\ Len(calls) = 3
    /\ calls[1].confidence = Some(0)
    /\ calls[2].confidence = None
    /\ calls[3].confidence = Some(8)
    /\ result.json.average_confidence = Some(50)

\* Text sub occurs in text s at position i
MatchAt(s, sub, i) == SubSeq(s, i, i + Len(sub) - 1) = sub

\* Text sub occurs in text s (the quantifiers over singletons evaluate the
\* two texts once)
Contains(s, sub) ==
    \E u \in {s}, v \in {sub} :
        \E i \in 1..(Len(u) - Len(v) + 1) : MatchAt(u, v, i)

\* The arguments of the think call made last
LastCall == calls[Len(calls)]

\* C6: the confirmation of think has a bracketed pattern annotation exactly
\* when a pattern was supplied (any string), a bracketed confidence
\* annotation with two decimals exactly when a confidence was supplied (any
\* number, 0 included), and so agrees with the fields of the appended entry.
C6_ConfirmationAnnotations ==
    Returned("think") /\ "str" \in DOMAIN result =>
        LET a     == LastCall
            entry == thoughts_log[Len(thoughts_log)]
            text  == result.str
        IN  /\ a.pattern # None
                   => Contains(text, STR_OpenPattern \o a.pattern[1] \o STR_Close)
            /\ a.pattern = None => ~Contains(text, STR_OpenPattern)
            /\ a.confidence # None
                   => Contains(text, STR_OpenConfidence
                                         \o Fixed2(Round2(a.confidence[1], ConfDen))
                                         \o STR_Close)
            /\ a.confidence = None => ~Contains(text, STR_OpenConfidence)
            /\ Contains(text, STR_OpenPattern) <=> "pattern" \in DOMAIN entry
            /\ Contains(text, STR_OpenConfidence) <=> "confidence" \in DOMAIN entry

\* The positions of text s at which text sub starts
Positions(s, sub) ==
    UNION {{i \in 1..(Len(u) - Len(v) + 1) : MatchAt(u, v, i)} : u \in {s}, v \in {sub}}

\* The least element of the finite set P of positions, 0 when P is empty
FirstOf(P) == IF P = {} THEN 0 ELSE CHOOSE p \in P : \A q \in P : p <= q

\* The header expected for the i-th think call since the last clear
Header(i) ==
    STR_ThoughtNo \o IntToStr(i) \o STR_OpenParen
        \o calls[i].now \o STR_Space \o timezone_name \o STR_CloseParenColon

\* Where the i-th header starts in text s (0 when it does not occur)
HeaderPos(s, i) ==
    CHOOSE p \in {FirstOf(P) : P \in {Positions(s, Header(i))}} : TRUE

\* The part of text s from the i-th header up to the next header
Block(s, i) ==
    CHOOSE b \in {SubSeq(u, HeaderPos(u, i),
                         IF i < Len(calls) THEN HeaderPos(u, i + 1) - 1 ELSE Len(u))
                      : u \in {s}} : TRUE

\* get_thoughts was called last, on a non-empty log, and returned a text
ReturnedListing ==
    Returned("get_thoughts") /\ calls # <<>> /\ "str" \in DOMAIN result

\* Every think call has its header once, and the headers come in call order
HeadersInOrder(s) ==
    /\ \A i \in Appended : Cardinality(Positions(s, Header(i))) = 1
    /\ HeaderPos(s, 1) = 1
    /\ \A i \in Appended : i < Len(calls) => HeaderPos(s, i) < HeaderPos(s, i + 1)

\* No optional argument was supplied to the call
AllOmitted(a) ==
    /\ a.pattern = None
    /\ a.confidence = None
    /\ a.alternatives = None
    /\ a.justification = None

\* C5: the listing has one block per think call, in call order, headed by the
\* number 1..n and the timestamp of the call; the block holds the value of
\* each optional argument that was supplied (the confidence with two
\* decimals), and the block of a call without optional arguments has no
\* bracketed segment, no justification line and no alternatives line.
C5_ListingRoundTrip ==
    ReturnedListing =>
        /\ HeadersInOrder(result.str)
        /\ \A i \in Appended :
               \E b \in {Block(result.str, i)} : \E a \in {calls[i]} :
                   /\ Contains(b, NL \o a.thought \o NL)
                   /\ a.pattern # None
                          => Contains(b, STR_Pattern \o a.pattern[1])
                   /\ a.confidence # None
                          => Contains(b, STR_Confidence
                                             \o Fixed2(Round2(a.confidence[1], ConfDen)))
                   /\ a.justification # None
                          => Contains(b, STR_Justification \o a.justification[1])
                   /\ a.alternatives # None
                          => \A k \in 1..Len(a.alternatives[1]) :
                                 Contains(b, a.alternatives[1][k])
                   /\ AllOmitted(a)
                          => /\ ~Contains(b, <<"[">>)
                             /\ ~Contains(b, STR_Justification)
                             /\ ~Contains(b, STR_Alternatives)

\* A call with every optional argument, then one with none, then the listing
C5_Witness ==
    /\ ReturnedListing
    /\ Len(calls) = 2
    /\ calls[1].pattern # None
    /\ calls[1].confidence # None
    /\ calls[1].alternatives # None
    /\ calls[1].justification # None
    /\ AllOmitted(calls[2])
    /\ Contains(Block(result.str, 1), STR_Confidence \o <<"0", ".", "3", "8">>)

\* The supplied alternatives of the call are a non-empty list
NonEmptyAlternatives(a) == a.alternatives # None /\ a.alternatives[1] # <<>>

\* C10: an alternatives argument that is supplied but empty is stored on the
\* entry, yet thoughts_with_alternatives counts, and the listing gives an
\* alternatives line to, exactly the entries whose alternatives are supplied
\* and non-empty; thoughts_with_justification counts every entry whose
\* justification was supplied, the empty string included.
C10_EmptyAlternatives ==
    /\ \A i \in Appended :
           calls[i].alternatives # None
               => /\ "alternatives" \in DOMAIN thoughts_log[i]
                  /\ thoughts_log[i].alternatives = calls[i].alternatives[1]
    /\ ReturnedStats
           => /\ result.json.thoughts_with_alternatives
                     = Cardinality({i \in Appended : NonEmptyAlternatives(calls[i])})
              /\ result.json.thoughts_with_justification
                     = Cardinality({i \in Appended : calls[i].justification # None})
    /\ ReturnedListing
           => /\ HeadersInOrder(result.str)
              /\ \A i \in Appended :
                     Contains(Block(result.str, i), STR_Alternatives)
                         <=> NonEmptyAlternatives(calls[i])

\* An empty list of alternatives and an empty justification are stored, and
\* counted as no alternatives and as a justification
C10_Witness ==
    /\ ReturnedStats
    /\ Len(calls) = 2
    /\ calls[1].alternatives = Some(<<>>)
    /\ calls[1].justification = Some(<<>>)
    /\ NonEmptyAlternatives(calls[2])
    /\ calls[2].justification = None
    /\ thoughts_log[1].alternatives = <<>>
    /\ result.json.thoughts_with_alternatives = 1
    /\ result.json.thoughts_with_justification = 1

====
